---------------------------- MODULE Spec2Model ----------------------------
(***************************************************************************)
(* Model of the hellodrkey example of scion-apps:                          *)
(*   _examples/hellodrkey/hellodrkey.go    the Go driver (main) and the    *)
(*                                         exported GetDelegationSecret   *)
(*   _examples/hellodrkey/hellolibdrkey.c  C caller, discrete out pointers *)
(*   unnamed/part_000                      C caller, packed 32-byte buffer *)
(*                                                                         *)
(* Strings are sequences of one-character strings.  Times are whole Unix   *)
(* seconds.  A 64-bit IA integer is a sequence of four 16-bit words, most  *)
(* significant first, so that the ISD/AS split keeps its real widths.      *)
(***************************************************************************)
EXTENDS Integers, Sequences, FiniteSets, TLC

(***************************************************************************)
(* Characters and strings                                                  *)
(***************************************************************************)
Digits == {"0", "1", "2", "3", "4", "5", "6", "7", "8", "9"}

HexLetters == {"a", "b", "c", "d", "e", "f", "A", "B", "C", "D", "E", "F"}

\* the class [\d:A-Fa-f] of addrRegexp
IaChars == Digits \cup HexLetters \cup {":"}

\* value of a digit in base 10 or 16
DigitVal(c) ==
    CASE c = "0" -> 0 [] c = "1" -> 1 [] c = "2" -> 2 [] c = "3" -> 3
      [] c = "4" -> 4 [] c = "5" -> 5 [] c = "6" -> 6 [] c = "7" -> 7
      [] c = "8" -> 8 [] c = "9" -> 9
      [] c \in {"a", "A"} -> 10 [] c \in {"b", "B"} -> 11
      [] c \in {"c", "C"} -> 12 [] c \in {"d", "D"} -> 13
      [] c \in {"e", "E"} -> 14 [] c \in {"f", "F"} -> 15

AllIn(s, set) == \A i \in 1..Len(s) : s[i] \in set

HasSuffix(s, suf) ==
    /\ Len(s) >= Len(suf)
    /\ SubSeq(s, Len(s) - Len(suf) + 1, Len(s)) = suf

TrimSuffix(s, suf) == IF HasSuffix(s, suf) THEN SubSeq(s, 1, Len(s) - Len(suf)) ELSE s

\* strings.Split(s, sep) for a one-character separator
RECURSIVE Split(_, _)
Split(s, sep) ==
    IF \A i \in 1..Len(s) : s[i] # sep
    THEN <<s>>
    ELSE LET k == CHOOSE i \in 1..Len(s) :
                    s[i] = sep /\ \A j \in 1..(i - 1) : s[j] # sep
         IN  <<SubSeq(s, 1, k - 1)>> \o Split(SubSeq(s, k + 1, Len(s)), sep)

WordBase == 65536

ParseErr == [ok |-> FALSE]

\* the digits of s accumulated onto acc, a 32-bit value held as a high and a
\* low 16-bit word; ParseErr on a character that is no digit of the base or
\* on overflow of 32 bits
RECURSIVE ParseAcc(_, _, _)
ParseAcc(s, base, acc) ==
    IF s = <<>> THEN acc
    ELSE IF ~(s[1] \in Digits \cup HexLetters) \/ DigitVal(s[1]) >= base THEN ParseErr
    ELSE LET lo == acc.lo * base + DigitVal(s[1])
             hi == acc.hi * base + (lo \div WordBase)
         IN  IF hi >= WordBase THEN ParseErr
             ELSE ParseAcc(Tail(s), base, [ok |-> TRUE, hi |-> hi, lo |-> lo % WordBase])

\* strconv.ParseUint(s, base, bitSize) for bitSize 16 or 32
ParseUint(s, base, bitSize) ==
    IF s = <<>> THEN ParseErr
    ELSE LET v == ParseAcc(s, base, [ok |-> TRUE, hi |-> 0, lo |-> 0])
         IN  IF v.ok /\ bitSize = 16 /\ v.hi # 0 THEN ParseErr ELSE v

(***************************************************************************)
(* Library functions addrFromString calls (scion addr package, net.ParseIP) *)
(***************************************************************************)
ZeroIA == [I |-> 0, A |-> <<0, 0, 0>>]

NilHost == [kind |-> "nil"]

SvcNone == [kind |-> "SVC", svc |-> "None", mcast |-> FALSE]

SvcNames ==
    { <<"B", "S">>, <<"P", "S">>, <<"C", "S">>, <<"S", "B">>, <<"S", "I", "G">> }

\* addr.ASFromString: a decimal BGP AS number of 32 bits, or three
\* colon-separated groups of 16 bits in hex; the AS as three 16-bit words
ASFromString(s) ==
    LET parts == Split(s, ":")
    IN  IF Len(parts) = 1
        THEN LET v == ParseUint(s, 10, 32)
             IN  IF ~v.ok THEN ParseErr ELSE [ok |-> TRUE, as |-> <<0, v.hi, v.lo>>]
        ELSE IF Len(parts) # 3 THEN ParseErr
        ELSE LET g == [i \in 1..3 |-> ParseUint(parts[i], 16, 16)]
             IN  IF \E i \in 1..3 : ~g[i].ok THEN ParseErr
                 ELSE [ok |-> TRUE, as |-> <<g[1].lo, g[2].lo, g[3].lo>>]

\* addr.IAFromString: "<isd>-<as>", the ISD a decimal of 16 bits
IAFromString(s) ==
    LET parts == Split(s, "-")
    IN  IF Len(parts) # 2 THEN ParseErr
        ELSE LET isd == ParseUint(parts[1], 10, 16)
                 as  == ASFromString(parts[2])
             IN  IF ~isd.ok \/ ~as.ok THEN ParseErr
                 ELSE [ok |-> TRUE, ia |-> [I |-> isd.lo, A |-> as.as]]

\* addr.HostSVCFromString: a service name, with an optional _A or _M suffix
HostSVCFromString(s) ==
    LET mcast == HasSuffix(s, <<"_", "M">>) /\ ~HasSuffix(s, <<"_", "A">>)
        name  == IF HasSuffix(s, <<"_", "A">>) THEN TrimSuffix(s, <<"_", "A">>)
                 ELSE TrimSuffix(s, <<"_", "M">>)
    IN  IF name \in SvcNames
        THEN [kind |-> "SVC", svc |-> name, mcast |-> mcast]
        ELSE SvcNone

\* net.ParseIP for a dotted quad
ParseIPv4(s) ==
    LET parts == Split(s, ".")
        v     == [i \in 1..Len(parts) |-> ParseUint(parts[i], 10, 16)]
    IN  IF Len(parts) # 4 THEN NilHost
        ELSE IF \E i \in 1..4 : ~v[i].ok \/ (v[i].ok /\ v[i].lo > 255) THEN NilHost
        ELSE [kind |-> "IPv4", ip |-> [i \in 1..4 |-> v[i].lo]]

\* the 16-bit groups of one side of an IPv6 literal
Ipv6Groups(s) ==
    IF s = <<>> THEN [ok |-> TRUE, g |-> <<>>]
    ELSE LET parts == Split(s, ":")
             v     == [i \in 1..Len(parts) |-> ParseUint(parts[i], 16, 16)]
         IN  IF \E i \in 1..Len(parts) : ~v[i].ok THEN ParseErr
             ELSE [ok |-> TRUE, g |-> [i \in 1..Len(parts) |-> v[i].lo]]

\* net.ParseIP for an IPv6 literal of hex groups with at most one "::"
\* (no embedded dotted quad, no zone)
ParseIPv6(s) ==
    LET n   == Len(s)
        dbl == {i \in 1..(n - 1) : s[i] = ":" /\ s[i + 1] = ":"}
    IN  IF Cardinality(dbl) > 1 THEN NilHost
        ELSE IF dbl = {}
        THEN LET g == Ipv6Groups(s)
             IN  IF ~g.ok THEN NilHost
                 ELSE IF Len(g.g) # 8 THEN NilHost
                 ELSE [kind |-> "IPv6", ip |-> g.g]
        ELSE LET k == CHOOSE i \in dbl : TRUE
                 l == Ipv6Groups(SubSeq(s, 1, k - 1))
                 r == Ipv6Groups(SubSeq(s, k + 2, n))
             IN  IF ~l.ok \/ ~r.ok THEN NilHost
                 ELSE IF Len(l.g) + Len(r.g) > 7 THEN NilHost
                 ELSE [kind |-> "IPv6",
                       ip   |-> l.g \o [i \in 1..(8 - Len(l.g) - Len(r.g)) |-> 0]
                                    \o r.g]

\* addr.HostFromIPStr: nil when net.ParseIP rejects the string
HostFromIPStr(s) ==
    IF \E i \in 1..Len(s) : s[i] = "." /\ \A j \in 1..(i - 1) : s[j] # ":"
    THEN ParseIPv4(s)
    ELSE IF \E i \in 1..Len(s) : s[i] = ":"
    THEN ParseIPv6(s)
    ELSE NilHost

(***************************************************************************)
(* addrFromString                                                          *)
(***************************************************************************)
addrRegexpIaIndex == 1

addrRegexpL3Index == 2

\* whether `^(\d+-[\d:A-Fa-f]+),\[([^\]]+)\]$` matches with the dash at d and
\* the comma at c
AddrSplitAt(s, d, c) ==
    /\ 2 <= d /\ d + 2 <= c /\ c + 3 <= Len(s)
    /\ s[d] = "-"
    /\ s[c] = ","
    /\ s[c + 1] = "["
    /\ AllIn(SubSeq(s, 1, d - 1), Digits)
    /\ AllIn(SubSeq(s, d + 1, c - 1), IaChars)
    /\ \A i \in (c + 2)..(Len(s) - 1) : s[i] # "]"
    /\ s[Len(s)] = "]"

\* addrRegexp.FindStringSubmatch: <<>> for nil, else the two groups
addrRegexp(s) ==
    IF \E d, c \in 1..Len(s) : AddrSplitAt(s, d, c)
    THEN LET c == CHOOSE c \in 1..Len(s) : \E d \in 1..Len(s) : AddrSplitAt(s, d, c)
         IN  <<SubSeq(s, 1, c - 1), SubSeq(s, c + 2, Len(s) - 1)>>
    ELSE <<>>

NilErr == [msg |-> "nil"]

ErrNoValidAddress(arg) == [msg |-> "no valid SCION address: %q", arg |-> arg]

ErrInvalidIA(arg) == [msg |-> "invalid IA string: %v", arg |-> arg]

ErrInvalidIP(arg) == [msg |-> "invalid IP address string: %v", arg |-> arg]

ZeroSCIONAddress == [IA |-> ZeroIA, Host |-> NilHost]

\* a failure on the host that keeps the IA already parsed
AddrFromL3KeepsIA(parts, ia, hostSVC, l3) ==
    IF hostSVC # SvcNone
    THEN [addr |-> [IA |-> ia, Host |-> hostSVC], err |-> NilErr,
          calls |-> <<"IAFromString", "HostSVCFromString">>]
    ELSE [addr |-> [IA |-> ia, Host |-> l3],
          err |-> IF l3 = NilHost THEN ErrInvalidIP(parts[addrRegexpL3Index])
                  ELSE NilErr,
          calls |-> <<"IAFromString", "HostSVCFromString", "HostFromIPStr">>]

\* addrFromString from line 161 on, once the IA has parsed: the host is a
\* service name or else an IP literal
AddrFromL3(parts, ia, hostSVC, l3) ==
    IF hostSVC # SvcNone
    THEN [addr |-> [IA |-> ia, Host |-> hostSVC], err |-> NilErr,
          calls |-> <<"IAFromString", "HostSVCFromString">>]
    ELSE IF l3 = NilHost
    THEN [addr |-> ZeroSCIONAddress,
          err |-> ErrInvalidIP(parts[addrRegexpL3Index]),
          calls |-> <<"IAFromString", "HostSVCFromString", "HostFromIPStr">>]
    ELSE [addr |-> [IA |-> ia, Host |-> l3], err |-> NilErr,
          calls |-> <<"IAFromString", "HostSVCFromString", "HostFromIPStr">>]

\* addrFromString from line 156 on, once the regular expression has matched
AddrFromIA(parts, ia) ==
    IF ~ia.ok
    THEN [addr |-> ZeroSCIONAddress,
          err |-> ErrInvalidIA(parts[addrRegexpIaIndex]),
          calls |-> <<"IAFromString">>]
    ELSE AddrFromL3(parts, ia.ia, HostSVCFromString(parts[addrRegexpL3Index]),
                    HostFromIPStr(parts[addrRegexpL3Index]))

\* addrFromString from line 153 on, parts the result of FindStringSubmatch
AddrFromParts(address, parts) ==
    IF parts = <<>>
    THEN [addr |-> ZeroSCIONAddress, err |-> ErrNoValidAddress(address),
          calls |-> <<>>]
    ELSE AddrFromIA(parts, IAFromString(parts[addrRegexpIaIndex]))

\* addrFromString: the address, the error, and the library calls made
addrFromString(address) == AddrFromParts(address, addrRegexp(address))

(***************************************************************************)
(* Command lines: the values of -src and -dst                              *)
(***************************************************************************)
\* the text before the comma
IaInputs ==
    { <<"1", "-", "f", "f", "0", "0", ":", "0", ":", "1", "1", "1">>,   \* 1-ff00:0:111
      <<"1", "-", "f", "f", "0", "0", ":", "0", ":", "1", "1", "2">>,   \* 1-ff00:0:112
      <<"1", "7", "-", "6", "4", "5", "1", "2">>,                       \* 17-64512
      <<"1", "-", "4", "2", "9", "4", "9", "6", "7", "2", "9", "6">>,   \* 1-4294967296
      <<"1", "-", "f", "f">>,                                           \* 1-ff
      <<"7", "0", "0", "0", "0", "-", "1">>,                            \* 70000-1
      <<"1", "-", "1", ":", "2">>,                                      \* 1-1:2
      <<"x", "-", "1">>,                                                \* x-1
      <<"1", "-">>                                                      \* 1-
    }

\* the text between the brackets
HostInputs ==
    { <<"1", "2", "7", ".", "0", ".", "0", ".", "1">>,                  \* 127.0.0.1
      <<"f", "d", "0", "0", ":", "f", "0", "0", "d", ":", "c", "a", "f", "e",
        ":", ":", "7", "f", "0", "0", ":", "a">>,             \* fd00:f00d:cafe::7f00:a
      <<":", ":", "1">>,                                                \* ::1
      <<"C", "S">>,                                                     \* CS
      <<"C", "S", "_", "M">>,                                           \* CS_M
      <<"S", "I", "G", "_", "A">>,                                      \* SIG_A
      <<"2", "5", "6", ".", "0", ".", "0", ".", "1">>,                  \* 256.0.0.1
      <<"1", ".", "2", ".", "3">>,                                      \* 1.2.3
      <<"z", "z">>,                                                     \* zz
      <<"1", ":", ":", "2", ":", ":", "3">>,                            \* 1::2::3
      <<>>,                                                             \* (empty)
      <<"a", "]", "b">>                                                 \* a]b
    }

DefaultSrcIa == <<"1", "-", "f", "f", "0", "0", ":", "0", ":", "1", "1", "1">>

DefaultSrcHost == <<"1", "2", "7", ".", "0", ".", "0", ".", "1">>

DefaultDstIa == <<"1", "-", "f", "f", "0", "0", ":", "0", ":", "1", "1", "2">>

DefaultDstHost ==
    <<"f", "d", "0", "0", ":", "f", "0", "0", "d", ":", "c", "a", "f", "e",
      ":", ":", "7", "f", "0", "0", ":", "a">>

\* "<ia>,[<host>]" and four ways of getting it wrong
Framed(ia, host, frame) ==
    CASE frame = "ok"        -> ia \o <<",", "[">> \o host \o <<"]">>
      [] frame = "noopen"    -> ia \o <<",">> \o host \o <<"]">>
      [] frame = "noclose"   -> ia \o <<",", "[">> \o host
      [] frame = "trailing"  -> ia \o <<",", "[">> \o host \o <<"]", " ">>
      [] frame = "nocomma"   -> ia \o <<"[">> \o host \o <<"]">>

Frames == {"ok", "noopen", "noclose", "trailing", "nocomma"}

DefaultSrcAddr == Framed(DefaultSrcIa, DefaultSrcHost, "ok")

DefaultDstAddr == Framed(DefaultDstIa, DefaultDstHost, "ok")

\* every IA with a good host, every host with a good IA, every frame, and
\* some strings wrong in two places
AddrInputs ==
    {Framed(ia, DefaultSrcHost, "ok") : ia \in IaInputs}
      \cup {Framed(DefaultDstIa, h, "ok") : h \in HostInputs}
      \cup {Framed(DefaultSrcIa, DefaultDstHost, f) : f \in Frames}
      \cup {Framed(<<"1", "-", "f", "f">>, <<"z", "z">>, f) : f \in Frames}
      \cup {<<>>}

\* the values of -src
SrcInputs == AddrInputs

\* the values of -dst: the default, a service, and three malformed strings
DstInputs ==
    { DefaultDstAddr,
      Framed(DefaultDstIa, <<"C", "S", "_", "M">>, "ok"),
      Framed(<<"7", "0", "0", "0", "0", "-", "1">>, DefaultDstHost, "ok"),
      Framed(DefaultDstIa, <<"2", "5", "6", ".", "0", ".", "0", ".", "1">>, "ok"),
      Framed(DefaultDstIa, DefaultDstHost, "noclose") }

(***************************************************************************)
(* Bounds of the model                                                     *)
(***************************************************************************)
\* the clock runs from 0 to MaxClock seconds
MaxClock == 2

\* the daemon's epochs are EpochLen seconds long, EpochLen in 1..MaxEpochLen
MaxEpochLen == 3

(***************************************************************************)
(* Time (Go's time.Time): whole seconds and nanoseconds                    *)
(***************************************************************************)
\* time.Unix(sec, nsec) for 0 <= nsec < 1e9
TimeUnix(sec, nsec) == [sec |-> sec, nsec |-> nsec]

\* t.Add(d) for d a whole number of seconds
TimeAddSeconds(t, d) == [sec |-> t.sec + d, nsec |-> t.nsec]

\* t.Unix()
UnixOf(t) == t.sec

\* the sub-second parts time.Now() is read with
NowNsecs == {0, 500000000}

ZeroTime == TimeUnix(0, 0)

(***************************************************************************)
(* The daemon (sciond) and the drkey library                               *)
(***************************************************************************)
KeyLen == 16

CtxTimeout == 10

ZeroEpoch == [NotBefore |-> ZeroTime, NotAfter |-> ZeroTime]

ZeroLvl2Key ==
    [KeyType |-> "", Protocol |-> "", SrcIA |-> ZeroIA, DstIA |-> ZeroIA,
     SrcHost |-> NilHost, DstHost |-> NilHost, Epoch |-> ZeroEpoch, Key |-> <<>>]

ZeroDS ==
    [Protocol |-> "", Epoch |-> ZeroEpoch, SrcIA |-> ZeroIA, DstIA |-> ZeroIA,
     Key |-> <<>>]

ZeroMeta ==
    [KeyType |-> "", Protocol |-> "", SrcIA |-> ZeroIA, DstIA |-> ZeroIA,
     SrcHost |-> NilHost, DstHost |-> NilHost]

\* the epoch [nb, na) of a daemon with contiguous epochs of len seconds
\* that contains t
EpochAt(len, t) ==
    LET nb == (t.sec \div len) * len
    IN  [NotBefore |-> TimeUnix(nb, 0), NotAfter |-> TimeUnix(nb + len, 0)]

\* the key bytes the daemon holds for a metadata and an epoch: some fixed
\* function of both
DaemonKeyBytes(meta, epoch) ==
    [i \in 1..KeyLen |->
        (17 * epoch.NotBefore.sec + 29 * meta.SrcIA.A[3] + 31 * meta.DstIA.A[3]
           + (IF meta.KeyType = "AS2AS" THEN 0 ELSE 101) + 7 * i) % 256]

\* the daemon's answer to DRKeyGetLvl2Key(ctx, meta, valTime)
DaemonLvl2Key(len, meta, valTime) ==
    LET epoch == EpochAt(len, valTime)
    IN  [KeyType |-> meta.KeyType, Protocol |-> meta.Protocol,
         SrcIA |-> meta.SrcIA, DstIA |-> meta.DstIA,
         SrcHost |-> meta.SrcHost, DstHost |-> meta.DstHost,
         Epoch |-> epoch, Key |-> DaemonKeyBytes(meta, epoch)]

ConnectOutcomes == {"ok", "error"}

RequestOutcomes == {"ok", "error", "timeout"}

KeyTypes == {"AS2AS", "AS2Host", "Host2Host"}

\* protocol.DelegatedDerivation.DeriveLvl2FromDS: the key derived locally
\* from a delegation secret; an unknown key type is rejected
DeriveLvl2FromDS(meta, ds) ==
    IF meta.KeyType \notin KeyTypes
    THEN [ok |-> FALSE, key |-> ZeroLvl2Key]
    ELSE [ok |-> TRUE,
          key |-> [KeyType |-> meta.KeyType, Protocol |-> meta.Protocol,
                   SrcIA |-> meta.SrcIA, DstIA |-> meta.DstIA,
                   SrcHost |-> meta.SrcHost, DstHost |-> meta.DstHost,
                   Epoch |-> ds.Epoch,
                   Key |-> IF meta.KeyType = "AS2AS" THEN ds.Key
                           ELSE [i \in 1..Len(ds.Key) |-> (ds.Key[i] + 101) % 256]]]

\* what protocol.KnownDerivations may hold under a name
DerivationKinds == {"absent", "standard", "delegated"}

\* the registries the program is linked against: the library's own, and
\* three in which "piskes" is missing or is no delegated derivation
Registries ==
    { [piskes |-> "delegated", scmp |-> "standard"],
      [piskes |-> "absent",    scmp |-> "standard"],
      [piskes |-> "absent",    scmp |-> "delegated"],
      [piskes |-> "standard",  scmp |-> "delegated"] }

(***************************************************************************)
(* State                                                                   *)
(***************************************************************************)
Procs == {"hellodrkey", "hellolibdrkey", "part_000", "unit"}

CProcs == {"hellolibdrkey", "part_000"}

VARIABLES
    run,       \* what is started: "driver" (hellodrkey), "callers" (the two C
               \* programs) or "unit" (one call of Server.HostKeyFromDS)
    epochLen,  \* the daemon's epoch length, in seconds
    registry,  \* protocol.KnownDerivations
    endian,    \* the platform's byte order
    clock,     \* the wall clock, in seconds
    pc,        \* per process: where it is
    exit,      \* per process: -1 while running, else the exit status
    panicked,  \* per process: "no", "check" (panic in check) or "runtime"
    stdout,    \* per process: the lines printed
    calls,     \* per process: the functions called, in order
    conns,     \* per process: the daemon connections attempted
    reqs,      \* per process: the key requests issued
    scopes,    \* per process: the timeout contexts opened
    drv,       \* main's variables in hellodrkey.go
    mem,       \* per C program: its variables
    unit       \* the arguments and the result of the unit call

vars ==
    <<run, epochLen, registry, endian, clock, pc, exit, panicked, stdout, calls,
      conns, reqs, scopes, drv, mem, unit>>

env == <<run, epochLen, registry, endian>>

\* the processes of a run
Live(r) ==
    CASE r = "driver"  -> {"hellodrkey"}
      [] r = "callers" -> CProcs
      [] r = "unit"    -> {"unit"}

DefaultSciond == "127.0.0.1:30255"

ZeroDrv ==
    [flagClient |-> FALSE, flagServer |-> FALSE,
     clientRole |-> FALSE, serverRole |-> FALSE,
     srcAddr |-> <<>>, dstAddr |-> <<>>,
     srcSCIONAddr |-> ZeroSCIONAddress, dstSCIONAddr |-> ZeroSCIONAddress,
     client |-> 0, server |-> 0,
     metaClient |-> ZeroMeta, metaServer |-> ZeroMeta, dsMeta |-> ZeroMeta,
     lvl2Key |-> ZeroLvl2Key, lvl2KeyNext |-> ZeroLvl2Key,
     lvl2KeyPrev |-> ZeroLvl2Key, dsScope |-> 0,
     ds |-> ZeroDS, clientKey |-> ZeroLvl2Key, serverKey |-> ZeroLvl2Key,
     parseLog |-> <<>>]   \* the calls of addrFromString: argument and results

ZeroCDS == [validity_not_before |-> 0, validity_not_after |-> 0,
            key |-> [i \in 1..KeyLen |-> 0]]

ZeroMem == [t_now |-> 0, ds |-> ZeroCDS, ds_buf |-> <<>>, sd |-> 0,
            resp |-> ZeroLvl2Key]

ZeroUnit == [meta |-> ZeroMeta, ds |-> ZeroDS, lookup |-> "", invoked |-> FALSE,
             key |-> ZeroLvl2Key]

Init ==
    /\ \/ /\ run = "driver"
          /\ registry \in {r \in Registries : r.scmp = "standard"}
          /\ endian = "little"
       \/ /\ run = "callers"
          /\ registry = [piskes |-> "delegated", scmp |-> "standard"]
          /\ endian \in {"little", "big"}
       \/ run = "unit" /\ registry \in Registries /\ endian = "little"
    /\ epochLen \in 1..MaxEpochLen
    /\ clock = -1
    /\ pc = [p \in Procs |-> IF p \in Live(run) THEN "start" ELSE "off"]
    /\ exit = [p \in Procs |-> -1]
    /\ panicked = [p \in Procs |-> "no"]
    /\ stdout = [p \in Procs |-> <<>>]
    /\ calls = [p \in Procs |-> <<>>]
    /\ conns = [p \in Procs |-> <<>>]
    /\ reqs = [p \in Procs |-> <<>>]
    /\ scopes = [p \in Procs |-> <<>>]
    /\ drv = ZeroDrv
    /\ mem = [p \in CProcs |-> ZeroMem]
    /\ unit = ZeroUnit

(***************************************************************************)
(* check, defer and the timeout contexts                                   *)
(***************************************************************************)
\* context.WithTimeout(context.Background(), 10*time.Second) in function by
OpenScope(sc, by) == Append(sc, [by |-> by, timeout |-> CtxTimeout, released |-> FALSE])

\* the deferred cancelF() of scope i, run when its function returns
ReleaseScope(sc, i) == [sc EXCEPT ![i].released = TRUE]

\* an exit that runs no deferred call
UnwindNothing(sc) == sc

\* check(e) with e # nil panics; the panic unwinds the stack and runs the
\* deferred cancelF() of every function it leaves
Unwind(sc) == [i \in 1..Len(sc) |-> [sc[i] EXCEPT !.released = TRUE]]

\* sciond.NewService(addr).Connect(ctx), called from function by
Connect(cs, by, addr, outcome) ==
    Append(cs, [by |-> by, addr |-> addr, ok |-> (outcome = "ok")])

\* every request over the process's first connection
IssueRequestOnFirst(rs, by, conn, scope, meta, valTime, outcome) ==
    Append(rs, [by |-> by, conn |-> 1, scope |-> scope, meta |-> meta,
                valTime |-> valTime, outcome |-> outcome])

\* c.DRKeyGetLvl2Key(ctx, meta, valTime) on connection conn under scope
IssueRequest(rs, by, conn, scope, meta, valTime, outcome) ==
    Append(rs, [by |-> by, conn |-> conn, scope |-> scope, meta |-> meta,
                valTime |-> valTime, outcome |-> outcome])

\* process p dies in a panic raised by via
Panic(p, via, sc) ==
    /\ pc' = [pc EXCEPT ![p] = "panic"]
    /\ exit' = [exit EXCEPT ![p] = 2]
    /\ panicked' = [panicked EXCEPT ![p] = via]
    /\ scopes' = [scopes EXCEPT ![p] = Unwind(sc)]

\* process p goes on to pc next
Goto(p, next) ==
    /\ pc' = [pc EXCEPT ![p] = next]
    /\ exit' = [exit EXCEPT ![p] = IF next = "done" THEN 0 ELSE @]
    /\ UNCHANGED panicked

(***************************************************************************)
(* hellodrkey.go: main                                                     *)
(***************************************************************************)
D == "hellodrkey"

\* a default that turns on the client role only
RolesClientDefault(flagClient, flagServer) ==
    IF ~flagClient /\ ~flagServer
    THEN [client |-> TRUE, server |-> FALSE]
    ELSE [client |-> flagClient, server |-> flagServer]

\* the roles after flag.Parse: both when neither flag is given
RolesAfterFlags(flagClient, flagServer) ==
    IF ~flagClient /\ ~flagServer
    THEN [client |-> TRUE, server |-> TRUE]
    ELSE [client |-> flagClient, server |-> flagServer]

\* the metadata ThisClientAndMeta and ThisServerAndMeta build
HostMeta(srcIA, srcHost, dstIA, dstHost) ==
    [KeyType |-> "Host2Host", Protocol |-> "piskes", SrcIA |-> srcIA,
     DstIA |-> dstIA, SrcHost |-> srcHost, DstHost |-> dstHost]

\* the metadata dsForServer builds from the server's
DsMeta(meta) ==
    [KeyType |-> "AS2AS", Protocol |-> meta.Protocol, SrcIA |-> meta.SrcIA,
     DstIA |-> meta.DstIA, SrcHost |-> NilHost, DstHost |-> NilHost]

\* the delegation secret dsForServer builds from a level 2 key
DsOf(lvl2Key) ==
    [Protocol |-> lvl2Key.Protocol, Epoch |-> lvl2Key.Epoch,
     SrcIA |-> lvl2Key.SrcIA, DstIA |-> lvl2Key.DstIA, Key |-> lvl2Key.Key]

\* where main goes after the client role, or after parsing without one
AfterClient(serverRole) == IF serverRole THEN "server_connect" ELSE "done"

\* where main goes after parsing
AfterParse(clientRole, serverRole) ==
    IF clientRole THEN "client_connect" ELSE AfterClient(serverRole)

\* an error that main does not look at
ParseNeverFailed(res) == FALSE

\* whether main gives up after parsing an address
ParseFailed(res) == res.err # NilErr

\* a lookup under the protocol name of the metadata, its absence an error
\* for check
HostKeyFromDSByMeta(reg, meta, ds) ==
    LET name == meta.Protocol
    IN  IF reg[name] # "delegated"
        THEN [outcome |-> "check", lookup |-> name, invoked |-> FALSE,
              key |-> ZeroLvl2Key]
        ELSE LET r == DeriveLvl2FromDS(meta, ds)
             IN  IF r.ok
                 THEN [outcome |-> "ok", lookup |-> name, invoked |-> TRUE,
                       key |-> r.key]
                 ELSE [outcome |-> "check", lookup |-> name, invoked |-> TRUE,
                       key |-> ZeroLvl2Key]

\* Server.HostKeyFromDS: the derivation registered as "piskes", asserted
\* to be a DelegatedDerivation, applied to meta and ds
HostKeyFromDS(reg, meta, ds) ==
    LET name == "piskes"
    IN  IF reg[name] # "delegated"
        THEN [outcome |-> "runtime", lookup |-> name, invoked |-> FALSE,
              key |-> ZeroLvl2Key]
        ELSE LET r == DeriveLvl2FromDS(meta, ds)
             IN  IF r.ok
                 THEN [outcome |-> "ok", lookup |-> name, invoked |-> TRUE,
                       key |-> r.key]
                 ELSE [outcome |-> "check", lookup |-> name, invoked |-> TRUE,
                       key |-> ZeroLvl2Key]

\* main's variables after line 215
DrvAfterFlags(flagClient, flagServer, roles, srcAddr, dstAddr) ==
    [drv EXCEPT !.flagClient = flagClient, !.flagServer = flagServer,
                !.clientRole = roles.client, !.serverRole = roles.server,
                !.srcAddr = srcAddr, !.dstAddr = dstAddr]

\* lines 219-221 and 226-228: the error, the usage, exit status 1
ExitOnParseError(err) ==
    /\ stdout' = [stdout EXCEPT ![D] =
          @ \o <<[line |-> "error", err |-> err],
                 [line |-> "PrintDefaults", err |-> NilErr]>>]
    /\ pc' = [pc EXCEPT ![D] = "exit"]
    /\ exit' = [exit EXCEPT ![D] = 1]

\* a call of addrFromString as parseLog keeps it
LogEntry(address, res) ==
    [address |-> address, addr |-> res.addr, err |-> res.err, calls |-> res.calls]

\* lines 217-229, src and dst what addrFromString makes of the two strings
\* (dst is looked at only when src parsed)
ParseAddresses(d, src, dst) ==
    IF ParseFailed(src)
    THEN /\ drv' = [d EXCEPT !.srcSCIONAddr = src.addr,
                             !.parseLog = <<LogEntry(d.srcAddr, src)>>]
         /\ ExitOnParseError(src.err)
    ELSE IF ParseFailed(dst)
    THEN /\ drv' = [d EXCEPT !.srcSCIONAddr = src.addr, !.dstSCIONAddr = dst.addr,
                             !.parseLog = <<LogEntry(d.srcAddr, src),
                                            LogEntry(d.dstAddr, dst)>>]
         /\ ExitOnParseError(dst.err)
    ELSE /\ drv' = [d EXCEPT !.srcSCIONAddr = src.addr, !.dstSCIONAddr = dst.addr,
                             !.parseLog = <<LogEntry(d.srcAddr, src),
                                            LogEntry(d.dstAddr, dst)>>]
         /\ pc' = [pc EXCEPT ![D] = AfterParse(d.clientRole, d.serverRole)]
         /\ exit' = [exit EXCEPT ![D] =
               IF AfterParse(d.clientRole, d.serverRole) = "done" THEN 0 ELSE @]
         /\ UNCHANGED stdout

\* lines 198-229: the flags, the default roles, the two addresses
DriverParse ==
    /\ pc[D] = "start"
    /\ \E flagClient, flagServer \in BOOLEAN, srcAddr \in SrcInputs, dstAddr \in DstInputs :
         ParseAddresses(DrvAfterFlags(flagClient, flagServer,
                                      RolesAfterFlags(flagClient, flagServer),
                                      srcAddr, dstAddr),
                        addrFromString(srcAddr), addrFromString(dstAddr))
    /\ UNCHANGED <<env, clock, panicked, calls, conns, reqs, scopes, mem, unit>>

\* line 232: ThisClientAndMeta, with NewClient
DriverClientConnect ==
    /\ pc[D] = "client_connect"
    /\ \E outcome \in ConnectOutcomes :
         /\ calls' = [calls EXCEPT ![D] = @ \o <<"ThisClientAndMeta", "NewClient">>]
         /\ conns' = [conns EXCEPT ![D] = Connect(@, "NewClient", DefaultSciond, outcome)]
         /\ IF outcome = "ok"
            THEN /\ drv' = [drv EXCEPT
                       !.client = Len(conns'[D]),
                       !.metaClient = HostMeta(drv.srcSCIONAddr.IA, drv.srcSCIONAddr.Host,
                                               drv.dstSCIONAddr.IA, drv.dstSCIONAddr.Host)]
                 /\ Goto(D, "client_hostkey")
                 /\ UNCHANGED scopes
            ELSE /\ Panic(D, "check", scopes[D])
                 /\ UNCHANGED drv
    /\ UNCHANGED <<env, clock, stdout, reqs, mem, unit>>

\* lines 233-238: Client.HostKey and the line it prints
DriverClientHostKey ==
    /\ pc[D] = "client_hostkey"
    /\ \E now \in clock..MaxClock, nsec \in NowNsecs, outcome \in RequestOutcomes :
         LET sc    == OpenScope(scopes[D], "HostKey")
             ctx   == Len(sc)
             t     == TimeUnix(now, nsec)
             key   == DaemonLvl2Key(epochLen, drv.metaClient, t)
         IN  /\ clock' = now
             /\ calls' = [calls EXCEPT ![D] = Append(@, "HostKey")]
             /\ reqs' = [reqs EXCEPT ![D] =
                   IssueRequest(@, "HostKey", drv.client, ctx, drv.metaClient, t, outcome)]
             /\ IF outcome = "ok"
                THEN /\ scopes' = [scopes EXCEPT ![D] = ReleaseScope(sc, ctx)]
                     /\ drv' = [drv EXCEPT !.clientKey = key]
                     /\ stdout' = [stdout EXCEPT ![D] =
                           Append(@, [line |-> "Client", err |-> NilErr])]
                     /\ Goto(D, AfterClient(drv.serverRole))
                ELSE /\ Panic(D, "check", sc)
                     /\ UNCHANGED <<drv, stdout>>
    /\ UNCHANGED <<env, conns, mem, unit>>

\* line 242: ThisServerAndMeta, with NewServer
DriverServerConnect ==
    /\ pc[D] = "server_connect"
    /\ \E outcome \in ConnectOutcomes :
         /\ calls' = [calls EXCEPT ![D] = @ \o <<"ThisServerAndMeta", "NewServer">>]
         /\ conns' = [conns EXCEPT ![D] = Connect(@, "NewServer", DefaultSciond, outcome)]
         /\ IF outcome = "ok"
            THEN /\ drv' = [drv EXCEPT
                       !.server = Len(conns'[D]),
                       !.metaServer = HostMeta(drv.srcSCIONAddr.IA, drv.srcSCIONAddr.Host,
                                               drv.dstSCIONAddr.IA, drv.dstSCIONAddr.Host)]
                 /\ Goto(D, "ds_now")
                 /\ UNCHANGED scopes
            ELSE /\ Panic(D, "check", scopes[D])
                 /\ UNCHANGED drv
    /\ UNCHANGED <<env, clock, stdout, reqs, mem, unit>>

\* a second request at the end of the epoch itself
NextTimeAtNotAfter(lvl2Key) == lvl2Key.Epoch.NotAfter

\* the time of dsForServer's second request
NextTime(lvl2Key) == TimeAddSeconds(lvl2Key.Epoch.NotAfter, 1)

\* the time of dsForServer's third request
PrevTime(lvl2Key) == TimeAddSeconds(lvl2Key.Epoch.NotBefore, -1)

\* line 243, dsForServer lines 92-111: the context, the request for now,
\* the delegation secret
DsNow ==
    /\ pc[D] = "ds_now"
    /\ \E now \in clock..MaxClock, nsec \in NowNsecs, outcome \in RequestOutcomes :
         LET sc     == OpenScope(scopes[D], "dsForServer")
             ctx    == Len(sc)
             dsMeta == DsMeta(drv.metaServer)
             t      == TimeUnix(now, nsec)
             key    == DaemonLvl2Key(epochLen, dsMeta, t)
         IN  /\ clock' = now
             /\ calls' = [calls EXCEPT ![D] = Append(@, "dsForServer")]
             /\ reqs' = [reqs EXCEPT ![D] =
                   IssueRequest(@, "dsForServer", drv.server, ctx, dsMeta, t, outcome)]
             /\ IF outcome = "ok"
                THEN /\ scopes' = [scopes EXCEPT ![D] = sc]
                     /\ drv' = [drv EXCEPT !.dsMeta = dsMeta, !.dsScope = ctx,
                                           !.lvl2Key = key, !.ds = DsOf(key)]
                     /\ stdout' = [stdout EXCEPT ![D] =
                           Append(@, [line |-> "DS key", err |-> NilErr])]
                     /\ Goto(D, "ds_next")
                ELSE /\ Panic(D, "check", sc)
                     /\ UNCHANGED <<drv, stdout>>
    /\ UNCHANGED <<env, conns, mem, unit>>

\* dsForServer lines 112-115: the request one second past the epoch
DsNext ==
    /\ pc[D] = "ds_next"
    /\ \E outcome \in RequestOutcomes :
         LET t   == NextTime(drv.lvl2Key)
             key == DaemonLvl2Key(epochLen, drv.dsMeta, t)
         IN  /\ reqs' = [reqs EXCEPT ![D] =
                   IssueRequest(@, "dsForServer", drv.server, drv.dsScope, drv.dsMeta,
                                t, outcome)]
             /\ IF outcome = "ok"
                THEN /\ drv' = [drv EXCEPT !.lvl2KeyNext = key]
                     /\ stdout' = [stdout EXCEPT ![D] =
                           Append(@, [line |-> "Next DS key", err |-> NilErr])]
                     /\ Goto(D, "ds_prev")
                     /\ UNCHANGED scopes
                ELSE /\ Panic(D, "check", scopes[D])
                     /\ UNCHANGED <<drv, stdout>>
    /\ UNCHANGED <<env, clock, calls, conns, mem, unit>>

\* dsForServer lines 116-120: the request one second before the epoch, and
\* the return
DsPrev ==
    /\ pc[D] = "ds_prev"
    /\ \E outcome \in RequestOutcomes :
         LET t   == PrevTime(drv.lvl2Key)
             key == DaemonLvl2Key(epochLen, drv.dsMeta, t)
         IN  /\ reqs' = [reqs EXCEPT ![D] =
                   IssueRequest(@, "dsForServer", drv.server, drv.dsScope, drv.dsMeta,
                                t, outcome)]
             /\ IF outcome = "ok"
                THEN /\ drv' = [drv EXCEPT !.lvl2KeyPrev = key]
                     /\ stdout' = [stdout EXCEPT ![D] =
                           Append(@, [line |-> "Prev DS key", err |-> NilErr])]
                     /\ scopes' = [scopes EXCEPT ![D] = ReleaseScope(@, drv.dsScope)]
                     /\ Goto(D, "server_derive")
                ELSE /\ Panic(D, "check", scopes[D])
                     /\ UNCHANGED <<drv, stdout>>
    /\ UNCHANGED <<env, clock, calls, conns, mem, unit>>

\* lines 244-249: Server.HostKeyFromDS and the line main prints
DriverHostKeyFromDS ==
    /\ pc[D] = "server_derive"
    /\ LET r == HostKeyFromDS(registry, drv.metaServer, drv.ds)
       IN  /\ calls' = [calls EXCEPT ![D] = Append(@, "HostKeyFromDS")]
           /\ IF r.outcome = "ok"
              THEN /\ drv' = [drv EXCEPT !.serverKey = r.key]
                   /\ stdout' = [stdout EXCEPT ![D] =
                         Append(@, [line |-> "Server", err |-> NilErr])]
                   /\ Goto(D, "done")
                   /\ UNCHANGED scopes
              ELSE /\ Panic(D, r.outcome, scopes[D])
                   /\ UNCHANGED <<drv, stdout>>
    /\ UNCHANGED <<env, clock, conns, reqs, mem, unit>>

(***************************************************************************)
(* The exported GetDelegationSecret and its two C callers                  *)
(***************************************************************************)
\* 0x0011ffaa00010d69 and 0x0011ffaa00010e97 as four 16-bit words
CallerSrcIA == <<17, 65450, 1, 3433>>

CallerDstIA == <<17, 65450, 1, 3735>>

\* addr.IAInt(x).IA(): the ISD is the top 16 bits, the AS the low 48
IAIntToIA(w) == [I |-> w[1], A |-> <<w[2], w[3], w[4]>>]

\* the metadata GetDelegationSecret asks the daemon for
GdsMeta(srcIA, dstIA) ==
    [KeyType |-> "AS2AS", Protocol |-> "piskes", SrcIA |-> IAIntToIA(srcIA),
     DstIA |-> IAIntToIA(dstIA), SrcHost |-> NilHost, DstHost |-> NilHost]

\* the arguments of time.Unix the wrong way round
GdsTimeAsNanos(valTime) == TimeUnix(0, valTime)

\* the time GetDelegationSecret asks the daemon for
GdsTime(valTime) == TimeUnix(valTime, 0)

\* copy(dst, src) of Go: as many bytes as the shorter of the two holds
CopyBytes(dst, src) ==
    [i \in 1..Len(dst) |-> IF i <= Len(src) THEN src[i] ELSE dst[i]]

\* stores that leave the key out
GdsWriteNoKey(m, lvl2Key) ==
    [m EXCEPT !.ds.validity_not_before = UnixOf(lvl2Key.Epoch.NotBefore),
              !.ds.validity_not_after = UnixOf(lvl2Key.Epoch.NotAfter)]

\* lines 192-194: the three stores through the caller's pointers
GdsWriteDiscrete(m, lvl2Key) ==
    [m EXCEPT !.ds.validity_not_before = UnixOf(lvl2Key.Epoch.NotBefore),
              !.ds.validity_not_after = UnixOf(lvl2Key.Epoch.NotAfter),
              !.ds.key = CopyBytes(@, lvl2Key.Key)]

\* byte k (0 the least significant) of the two's complement int64 v, for v
\* of at most 32 bits
Int64Byte(v, k) ==
    CASE k = 0 -> v % 256
      [] k = 1 -> (v \div 256) % 256
      [] k = 2 -> (v \div 65536) % 256
      [] k = 3 -> (v \div 16777216) % 256
      [] OTHER -> IF v < 0 THEN 255 ELSE 0

\* the 8 bytes of an int64 in memory
EncodeInt64(v, order) ==
    [i \in 1..8 |-> Int64Byte(v, IF order = "little" THEN i - 1 ELSE 8 - i)]

\* the int64 that 8 bytes of memory hold; a value of more than 32 bits reads
\* as the largest number of the model
DecodeInt64(b, order) ==
    LET le == [i \in 1..8 |-> IF order = "little" THEN b[i] ELSE b[9 - i]]
        lo == le[1] + 256 * le[2] + 65536 * le[3]
    IN  IF le[4] < 128 /\ \A i \in 5..8 : le[i] = 0
        THEN lo + 16777216 * le[4]
        ELSE IF le[4] >= 128 /\ \A i \in 5..8 : le[i] = 255
        THEN lo + 16777216 * (le[4] - 256)
        ELSE 2147483647

\* the packed variant's store: not-before, not-after and the key, one after
\* the other in the caller's 32 bytes
GdsWritePacked(m, lvl2Key, order) ==
    [m EXCEPT !.ds_buf =
        CopyBytes(@, EncodeInt64(UnixOf(lvl2Key.Epoch.NotBefore), order)
                       \o EncodeInt64(UnixOf(lvl2Key.Epoch.NotAfter), order)
                       \o CopyBytes([i \in 1..KeyLen |-> 0], lvl2Key.Key))]

\* memcpy that never advance the offset past not-before
DecodePackedStuck(m, order) ==
    [m EXCEPT !.ds.validity_not_before = DecodeInt64(SubSeq(m.ds_buf, 1, 8), order),
              !.ds.validity_not_after = DecodeInt64(SubSeq(m.ds_buf, 1, 8), order),
              !.ds.key = SubSeq(m.ds_buf, 17, 16 + KeyLen)]

\* part_000 lines 35-40: the three memcpy out of ds_buf
DecodePacked(m, order) ==
    LET i0 == 0
        i1 == i0 + 8
        i2 == i1 + 8
    IN  [m EXCEPT !.ds.validity_not_before =
                      DecodeInt64(SubSeq(m.ds_buf, i0 + 1, i0 + 8), order),
                  !.ds.validity_not_after =
                      DecodeInt64(SubSeq(m.ds_buf, i1 + 1, i1 + 8), order),
                  !.ds.key = SubSeq(m.ds_buf, i2 + 1, i2 + KeyLen)]

\* what an uninitialised struct delegation_secret may hold
GarbageCDS ==
    { ZeroCDS,
      [validity_not_before |-> -2, validity_not_after |-> 77,
       key |-> [i \in 1..KeyLen |-> 204]] }

\* C main up to the call: gettimeofday, t_now, the zeroed outputs
CStart(p) ==
    /\ pc[p] = "start"
    /\ \E r \in {0, -1}, tv_sec \in clock..MaxClock, garbage \in GarbageCDS :
         IF r # 0
         THEN /\ stdout' = [stdout EXCEPT ![p] =
                    Append(@, [line |-> "Syscall gettimeofday failed.", err |-> NilErr])]
              /\ pc' = [pc EXCEPT ![p] = "exit"]
              /\ exit' = [exit EXCEPT ![p] = 1]
              /\ UNCHANGED <<clock, mem>>
         ELSE /\ clock' = tv_sec
              /\ mem' = [mem EXCEPT ![p] =
                    IF p = "hellolibdrkey"
                    THEN [@ EXCEPT !.t_now = tv_sec, !.ds = ZeroCDS]
                    ELSE [@ EXCEPT !.t_now = tv_sec, !.ds = garbage,
                                   !.ds_buf = [i \in 1..(8 + 8 + KeyLen) |-> 0]]]
              /\ pc' = [pc EXCEPT ![p] = "gds_connect"]
              /\ UNCHANGED <<exit, stdout>>
    /\ UNCHANGED <<env, panicked, calls, conns, reqs, scopes, drv, unit>>

\* GetDelegationSecret lines 177-178: the connection
GdsConnect(p) ==
    /\ pc[p] = "gds_connect"
    /\ \E outcome \in ConnectOutcomes :
         /\ calls' = [calls EXCEPT ![p] = Append(@, "GetDelegationSecret")]
         /\ conns' = [conns EXCEPT ![p] =
               Connect(@, "GetDelegationSecret", DefaultSciond, outcome)]
         /\ IF outcome = "ok"
            THEN /\ mem' = [mem EXCEPT ![p].sd = Len(conns'[p])]
                 /\ Goto(p, "gds_request")
                 /\ UNCHANGED scopes
            ELSE /\ Panic(p, "check", scopes[p])
                 /\ UNCHANGED mem
    /\ UNCHANGED <<env, clock, stdout, reqs, drv, unit>>

\* GetDelegationSecret lines 180-195: the context, the request, the stores
GdsRequest(p) ==
    /\ pc[p] = "gds_request"
    /\ \E outcome \in RequestOutcomes :
         LET sc      == OpenScope(scopes[p], "GetDelegationSecret")
             ctx     == Len(sc)
             dsMeta  == GdsMeta(CallerSrcIA, CallerDstIA)
             t       == GdsTime(mem[p].t_now)
             lvl2Key == DaemonLvl2Key(epochLen, dsMeta, t)
         IN  /\ reqs' = [reqs EXCEPT ![p] =
                   IssueRequest(@, "GetDelegationSecret", mem[p].sd, ctx, dsMeta, t,
                                outcome)]
             /\ IF outcome = "ok"
                THEN /\ mem' = [mem EXCEPT ![p] =
                           IF p = "hellolibdrkey"
                           THEN GdsWriteDiscrete([@ EXCEPT !.resp = lvl2Key], lvl2Key)
                           ELSE GdsWritePacked([@ EXCEPT !.resp = lvl2Key], lvl2Key,
                                               endian)]
                     /\ scopes' = [scopes EXCEPT ![p] = ReleaseScope(sc, ctx)]
                     /\ Goto(p, "print")
                ELSE /\ Panic(p, "check", sc)
                     /\ UNCHANGED mem
    /\ UNCHANGED <<env, clock, stdout, calls, conns, drv, unit>>

\* C main after the call: part_000 unpacks ds_buf; both print the secret
CPrint(p) ==
    /\ pc[p] = "print"
    /\ mem' = [mem EXCEPT ![p] =
          IF p = "part_000" THEN DecodePacked(@, endian) ELSE @]
    /\ stdout' = [stdout EXCEPT ![p] = Append(@, [line |-> "DS key", err |-> NilErr])]
    /\ Goto(p, "done")
    /\ UNCHANGED <<env, clock, calls, conns, reqs, scopes, drv, unit>>

(***************************************************************************)
(* One call of Server.HostKeyFromDS with arguments of any kind             *)
(***************************************************************************)
UnitMetas ==
    { [KeyType |-> kt, Protocol |-> pr, SrcIA |-> IAIntToIA(CallerSrcIA),
       DstIA |-> IAIntToIA(CallerDstIA),
       SrcHost |-> [kind |-> "IPv4", ip |-> <<127, 0, 0, 1>>],
       DstHost |-> [kind |-> "SVC", svc |-> <<"C", "S">>, mcast |-> FALSE]] :
      kt \in KeyTypes \cup {"unknown"}, pr \in {"piskes", "scmp"} }

UnitHostKeyFromDS ==
    /\ pc["unit"] = "start"
    /\ \E meta \in UnitMetas, t \in clock..MaxClock :
         LET ds == DsOf(DaemonLvl2Key(epochLen, DsMeta(meta), TimeUnix(t, 0)))
             r  == HostKeyFromDS(registry, meta, ds)
         IN  /\ calls' = [calls EXCEPT !["unit"] = Append(@, "HostKeyFromDS")]
             /\ unit' = [meta |-> meta, ds |-> ds, lookup |-> r.lookup,
                         invoked |-> r.invoked, key |-> r.key]
             /\ IF r.outcome = "ok"
                THEN Goto("unit", "done") /\ UNCHANGED scopes
                ELSE Panic("unit", r.outcome, scopes["unit"])
    /\ UNCHANGED <<env, clock, stdout, conns, reqs, drv, mem>>

(***************************************************************************)
(* The specification                                                       *)
(***************************************************************************)
Next ==
    \/ DriverParse
    \/ DriverClientConnect
    \/ DriverClientHostKey
    \/ DriverServerConnect
    \/ DsNow
    \/ DsNext
    \/ DsPrev
    \/ DriverHostKeyFromDS
    \/ \E p \in CProcs : CStart(p)
    \/ \E p \in CProcs : GdsConnect(p)
    \/ \E p \in CProcs : GdsRequest(p)
    \/ \E p \in CProcs : CPrint(p)
    \/ UnitHostKeyFromDS

Spec == Init /\ [][Next]_vars

(***************************************************************************)
(* Properties                                                              *)
(***************************************************************************)
Count(seq, x) == Cardinality({i \in 1..Len(seq) : seq[i] = x})

\* main has come to its end, by returning or in a panic
Finished(p) == pc[p] \in {"done", "panic"}

\* every connection was made and every request answered
DaemonOk(p) ==
    /\ \A i \in 1..Len(conns[p]) : conns[p][i].ok
    /\ \A i \in 1..Len(reqs[p]) : reqs[p][i].outcome = "ok"

ClientFunctions == {"ThisClientAndMeta", "NewClient", "HostKey"}

ServerFunctions == {"ThisServerAndMeta", "NewServer", "dsForServer", "HostKeyFromDS"}

ClientRuns(n) == \A f \in ClientFunctions : Count(calls[D], f) = n

ServerRuns(n) == \A f \in ServerFunctions : Count(calls[D], f) = n

\* C1: in main no role ever runs twice; a role whose flag is not given while
\* the other's is never runs; and in a finished run in which every daemon
\* call succeeded, the roles the flags select (both when neither flag is
\* given) have each run exactly once.
C1_RolesOnce ==
    /\ \A f \in ClientFunctions \cup ServerFunctions : Count(calls[D], f) <= 1
    /\ (drv.flagServer /\ ~drv.flagClient) => ClientRuns(0)
    /\ (drv.flagClient /\ ~drv.flagServer) => ServerRuns(0)
    /\ (Finished(D) /\ DaemonOk(D)) =>
          /\ (~drv.flagClient /\ ~drv.flagServer) => ClientRuns(1) /\ ServerRuns(1)
          /\ drv.flagClient => ClientRuns(1)
          /\ drv.flagServer => ServerRuns(1)

C1_Witness ==
    /\ pc[D] = "done"
    /\ ~drv.flagClient /\ ~drv.flagServer
    /\ DaemonOk(D)
    /\ ClientRuns(1) /\ ServerRuns(1)

\* the string has the form "<id>,[<host>]" of addrRegexp
Matches(s) == \E d, c \in 1..Len(s) : AddrSplitAt(s, d, c)

\* the text before the first comma, and the text inside the brackets
IaText(s) == Split(s, ",")[1]

HostText(s) == SubSeq(s, Len(IaText(s)) + 3, Len(s) - 1)

HostValid(h) == HostSVCFromString(h) # SvcNone \/ HostFromIPStr(h) # NilHost

\* the one reason addrFromString has to fail on s, "none" if it has none
FailureCause(s) ==
    IF ~Matches(s) THEN "form"
    ELSE IF ~IAFromString(IaText(s)).ok THEN "ia"
    ELSE IF ~HostValid(HostText(s)) THEN "host"
    ELSE "none"

\* the message addrFromString gives for a cause
CauseMessage(cause) ==
    CASE cause = "form" -> "no valid SCION address: %q"
      [] cause = "ia"   -> "invalid IA string: %v"
      [] cause = "host" -> "invalid IP address string: %v"
      [] cause = "none" -> "nil"

\* every command-line string of the model, with what is to be expected of
\* it: the cause of failure, the IA and the host its two parts denote
Expected ==
    [s \in SrcInputs \cup DstInputs |->
        [cause |-> FailureCause(s),
         ia    |-> IF IAFromString(IaText(s)).ok THEN IAFromString(IaText(s)).ia
                   ELSE ZeroIA,
         svc   |-> HostSVCFromString(HostText(s)),
         ip    |-> HostFromIPStr(HostText(s))]]

\* one call of addrFromString is all-or-nothing, names its failure, and does
\* not try a service name as an IP literal
AllOrNothing(e) ==
    /\ \/ /\ e.err = NilErr
          /\ e.addr.IA = Expected[e.address].ia
          /\ e.addr.Host # NilHost
          /\ e.addr.Host \in {Expected[e.address].svc, Expected[e.address].ip}
       \/ /\ e.err # NilErr
          /\ e.addr = ZeroSCIONAddress
    /\ e.err.msg = CauseMessage(Expected[e.address].cause)
    /\ (Expected[e.address].cause \in {"host", "none"}
           /\ Expected[e.address].svc # SvcNone)
          => Count(e.calls, "HostFromIPStr") = 0

\* C2: every call of addrFromString returns either a nil error with the IA
\* and the host both taken from the input, or an error with the zero
\* address; each of the three causes of failure (form, IA, host) has its own
\* error message, different from the other two; a host that is a service
\* name is never handed to HostFromIPStr.
C2_AddrAllOrNothing ==
    /\ \A i \in 1..Len(drv.parseLog) : AllOrNothing(drv.parseLog[i])
    /\ Cardinality({CauseMessage(c) : c \in {"form", "ia", "host", "none"}}) = 4

C2_Witness ==
    /\ Len(drv.parseLog) = 2
    /\ drv.parseLog[1].err = NilErr
    /\ drv.parseLog[1].addr.Host.kind = "SVC"
    /\ Count(drv.parseLog[1].calls, "HostFromIPStr") = 0
    /\ drv.parseLog[2].err.msg = "invalid IP address string: %v"
    /\ drv.parseLog[2].addr = ZeroSCIONAddress

\* an address is malformed when addrFromString has a reason to fail on it
Malformed(s) == Expected[s].cause # "none"

\* the first malformed one of -src and -dst
FirstMalformed == IF Malformed(drv.srcAddr) THEN drv.srcAddr ELSE drv.dstAddr

\* C3: when -src or -dst is malformed, main prints the error of the first
\* malformed one and exits with status 1, and no daemon connection is ever
\* opened and no key request ever issued; so a connection or a request
\* implies two well-formed addresses.
C3_ParseFailureExits ==
    /\ (pc[D] \notin {"off", "start"}
          /\ (Malformed(drv.srcAddr) \/ Malformed(drv.dstAddr))) =>
          /\ pc[D] = "exit" /\ exit[D] = 1
          /\ Len(stdout[D]) = 2
          /\ stdout[D][1].line = "error"
          /\ stdout[D][1].err.msg = CauseMessage(Expected[FirstMalformed].cause)
          /\ conns[D] = <<>> /\ reqs[D] = <<>> /\ calls[D] = <<>>
    /\ (conns[D] # <<>> \/ reqs[D] # <<>>) =>
          ~Malformed(drv.srcAddr) /\ ~Malformed(drv.dstAddr)

C3_Witness ==
    /\ pc[D] = "exit" /\ exit[D] = 1
    /\ ~Malformed(drv.srcAddr) /\ Malformed(drv.dstAddr)
    /\ conns[D] = <<>> /\ reqs[D] = <<>>

L == "hellolibdrkey"

\* GetDelegationSecret has returned to its caller
Returned(p) == pc[p] \in {"print", "done"}

\* the daemon's answer to the request GetDelegationSecret issued
Answer(p) == DaemonLvl2Key(epochLen, reqs[p][1].meta, reqs[p][1].valTime)

\* C4: GetDelegationSecret connects at most once and asks for a key at most
\* once; when the connection or the request fails (a timeout included) the
\* process aborts in the panic of check, and not-before, not-after and the
\* key are as the caller zeroed them; when it returns, all three hold what
\* the daemon answered to the one request.
C4_NoPartialNoRetry ==
    /\ Len(conns[L]) <= 1 /\ Len(reqs[L]) <= 1
    /\ (\E i \in 1..Len(conns[L]) : ~conns[L][i].ok) =>
          /\ pc[L] = "panic" /\ exit[L] = 2 /\ panicked[L] = "check"
          /\ reqs[L] = <<>>
          /\ mem[L].ds = ZeroCDS
    /\ (\E i \in 1..Len(reqs[L]) : reqs[L][i].outcome # "ok") =>
          /\ pc[L] = "panic" /\ exit[L] = 2 /\ panicked[L] = "check"
          /\ mem[L].ds = ZeroCDS
    /\ pc[L] \in {"gds_connect", "gds_request"} => mem[L].ds = ZeroCDS
    /\ Returned(L) =>
          /\ Len(conns[L]) = 1 /\ Len(reqs[L]) = 1 /\ DaemonOk(L)
          /\ mem[L].ds.validity_not_before = Answer(L).Epoch.NotBefore.sec
          /\ mem[L].ds.validity_not_after = Answer(L).Epoch.NotAfter.sec
          /\ mem[L].ds.key = Answer(L).Key
          /\ Len(mem[L].ds.key) = KeyLen

C4_Witness ==
    /\ pc[L] = "panic" /\ panicked[L] = "check"
    /\ Len(reqs[L]) = 1 /\ reqs[L][1].outcome = "timeout"
    /\ mem[L].ds = ZeroCDS

\* C5: when GetDelegationSecret returns, the request it sent asked for the
\* AS-to-AS key of protocol "piskes" between the caller's source and
\* destination AS at exactly the caller's time, and the interval written to
\* the caller contains that time: not_before <= valTime < not_after.
C5_RequestAndInterval ==
    Returned(L) =>
       /\ reqs[L][1].meta.KeyType = "AS2AS"
       /\ reqs[L][1].meta.Protocol = "piskes"
       /\ reqs[L][1].meta.SrcIA.I = CallerSrcIA[1]
       /\ reqs[L][1].meta.SrcIA.A = SubSeq(CallerSrcIA, 2, 4)
       /\ reqs[L][1].meta.DstIA.I = CallerDstIA[1]
       /\ reqs[L][1].meta.DstIA.A = SubSeq(CallerDstIA, 2, 4)
       /\ reqs[L][1].valTime.sec = mem[L].t_now
       /\ reqs[L][1].valTime.nsec = 0
       /\ mem[L].ds.validity_not_before <= mem[L].t_now
       /\ mem[L].t_now < mem[L].ds.validity_not_after

C5_Witness ==
    /\ pc[L] = "done"
    /\ epochLen > 1
    /\ mem[L].ds.validity_not_after = mem[L].t_now + 1
    /\ mem[L].ds.validity_not_before < mem[L].t_now

\* C6: every key request runs under a timeout context of 10 seconds opened
\* by the function that issues it, and a context is unreleased only while
\* that function is still running (dsForServer between its requests): once
\* HostKey, dsForServer or GetDelegationSecret has returned or has aborted
\* in a panic, its context is released.
C6_ScopesReleased ==
    \A p \in Procs :
       /\ \A i \in 1..Len(reqs[p]) :
             /\ reqs[p][i].scope \in 1..Len(scopes[p])
             /\ scopes[p][reqs[p][i].scope].by = reqs[p][i].by
       /\ \A i \in 1..Len(scopes[p]) :
             /\ scopes[p][i].timeout = 10
             /\ scopes[p][i].by \in {"HostKey", "dsForServer", "GetDelegationSecret"}
             /\ ~scopes[p][i].released =>
                   /\ p = D
                   /\ scopes[p][i].by = "dsForServer"
                   /\ pc[D] \in {"ds_next", "ds_prev"}

C6_Witness ==
    /\ pc[D] = "panic"
    /\ Len(reqs[D]) = 3
    /\ reqs[D][3].outcome = "timeout"
    /\ Len(scopes[D]) = 2
    /\ scopes[D][2].by = "dsForServer" /\ scopes[D][2].released

K == "part_000"

\* C7 as claimed: in every run the daemon connections opened are as many as
\* the key requests issued (once the run has finished with every daemon
\* call answered), and no connection carries more than one key request.
C7_OneRequestPerConnection ==
    \A p \in Procs :
       /\ (pc[p] = "done" /\ DaemonOk(p)) => Len(conns[p]) = Len(reqs[p])
       /\ \A c \in 1..Len(conns[p]) :
             Cardinality({i \in 1..Len(reqs[p]) : reqs[p][i].conn = c}) <= 1

\* the function that opens the connection a requesting function uses
OpenerOf(by) ==
    CASE by = "HostKey" -> "NewClient"
      [] by = "dsForServer" -> "NewServer"
      [] by = "GetDelegationSecret" -> "GetDelegationSecret"

\* C7, amended: NewClient, NewServer and each call of GetDelegationSecret
\* open a connection of their own, at most once, and every key request goes
\* over the connection its own role opened, so no connection is shared
\* between roles; the client's and GetDelegationSecret's connection carry at
\* most one request, the server's carries the three requests of dsForServer,
\* so that requests can outnumber connections.
C7_ConnectionPerRole ==
    \A p \in Procs :
       /\ \A by \in {"NewClient", "NewServer", "GetDelegationSecret"} :
             Cardinality({c \in 1..Len(conns[p]) : conns[p][c].by = by}) <= 1
       /\ \A i \in 1..Len(reqs[p]) :
             /\ reqs[p][i].conn \in 1..Len(conns[p])
             /\ conns[p][reqs[p][i].conn].ok
             /\ conns[p][reqs[p][i].conn].by = OpenerOf(reqs[p][i].by)
       /\ \A c \in 1..Len(conns[p]) :
             Cardinality({i \in 1..Len(reqs[p]) : reqs[p][i].conn = c})
                <= IF conns[p][c].by = "NewServer" THEN 3 ELSE 1
       /\ (pc[p] = "done" /\ conns[p] # <<>>) => Len(conns[p]) <= Len(reqs[p])

C7_Witness ==
    /\ pc[D] = "done"
    /\ Len(conns[D]) = 2 /\ Len(reqs[D]) = 4
    /\ reqs[D][1].conn = 1
    /\ \A i \in 2..4 : reqs[D][i].conn = 2

\* C8: when both C programs have run to their end with the same time and
\* the same answer of the daemon, the caller of the packed variant (after
\* its three memcpy) and the caller of the variant with three pointers hold
\* the same not-before, not-after and key.
C8_VariantsAgree ==
    (pc[L] = "done" /\ pc[K] = "done" /\ mem[L].t_now = mem[K].t_now
        /\ mem[L].resp = mem[K].resp)
       => mem[L].ds = mem[K].ds

C8_Witness ==
    /\ pc[L] = "done" /\ pc[K] = "done"
    /\ mem[L].t_now = mem[K].t_now
    /\ mem[L].resp = mem[K].resp
    /\ endian = "big"
    /\ mem[K].ds.validity_not_before < 0
    /\ mem[K].ds.validity_not_after > mem[K].ds.validity_not_before
    /\ mem[K].ds.key = mem[K].resp.Key
    /\ mem[L].ds = mem[K].ds

\* the requests of dsForServer, in the order they were issued
DsRequests == SelectSeq(reqs[D], LAMBDA r : r.by = "dsForServer")

\* dsForServer has the answer to its second, to its third request
HasNext == drv.lvl2KeyNext # ZeroLvl2Key
HasPrev == drv.lvl2KeyPrev # ZeroLvl2Key

\* what dsForServer does whatever the length of the daemon's epochs: at
\* most three AS-to-AS requests, the first at any time, the second one
\* second past the first answer's not_after, the third one second before
\* its not_before, each issued only after the one before succeeded; the
\* delegation secret is the first answer's protocol, epoch, ASes and key
DsRequestsInOrder ==
    /\ Len(DsRequests) <= 3
    /\ \A i \in 1..Len(DsRequests) :
          /\ DsRequests[i].meta.KeyType = "AS2AS"
          /\ i > 1 => DsRequests[i - 1].outcome = "ok"
    /\ Len(DsRequests) >= 2 =>
          DsRequests[2].valTime =
             TimeUnix(drv.lvl2Key.Epoch.NotAfter.sec + 1,
                      drv.lvl2Key.Epoch.NotAfter.nsec)
    /\ Len(DsRequests) >= 3 =>
          DsRequests[3].valTime =
             TimeUnix(drv.lvl2Key.Epoch.NotBefore.sec - 1,
                      drv.lvl2Key.Epoch.NotBefore.nsec)
    /\ pc[D] \in {"server_derive", "done"} /\ drv.serverRole => Len(DsRequests) = 3
    /\ drv.ds # ZeroDS =>
          /\ drv.lvl2Key =
                DaemonLvl2Key(epochLen, DsRequests[1].meta, DsRequests[1].valTime)
          /\ drv.ds.Protocol = drv.lvl2Key.Protocol
          /\ drv.ds.Epoch = drv.lvl2Key.Epoch
          /\ drv.ds.SrcIA = drv.lvl2Key.SrcIA
          /\ drv.ds.DstIA = drv.lvl2Key.DstIA
          /\ drv.ds.Key = drv.lvl2Key.Key
    /\ HasPrev =>
          /\ drv.lvl2KeyPrev.Epoch.NotAfter = drv.lvl2Key.Epoch.NotBefore
          /\ drv.lvl2KeyPrev.Epoch # drv.lvl2Key.Epoch

\* C9 as claimed: three requests in order, and the second answer is the
\* epoch immediately following the first, the third the epoch immediately
\* preceding it.
C9_EpochsAdjacent ==
    /\ DsRequestsInOrder
    /\ HasNext =>
          /\ drv.lvl2KeyNext.Epoch.NotBefore = drv.lvl2Key.Epoch.NotAfter
          /\ drv.lvl2KeyNext.Epoch # drv.lvl2Key.Epoch

\* C9, amended: three AS-to-AS requests in order (now, first not_after + 1
\* second, first not_before - 1 second), the later ones only after the
\* earlier succeeded; the third answer is the epoch immediately preceding
\* the first; the second answer is the epoch that holds not_after + 1
\* second, a later epoch than the first: the one immediately following when
\* epochs last longer than one second, the one after that when they last
\* exactly one second; the delegation secret is built from the first answer.
C9_EpochsAround ==
    /\ DsRequestsInOrder
    /\ HasNext =>
          LET first == drv.lvl2Key.Epoch
              next  == drv.lvl2KeyNext.Epoch
          IN  /\ next.NotBefore.sec <= first.NotAfter.sec + 1
              /\ first.NotAfter.sec + 1 < next.NotAfter.sec
              /\ next # first
              /\ next.NotBefore.sec =
                    IF first.NotAfter.sec - first.NotBefore.sec > 1
                    THEN first.NotAfter.sec
                    ELSE first.NotAfter.sec + 1

C9_Witness ==
    /\ pc[D] = "done" /\ HasNext /\ HasPrev
    /\ Len(DsRequests) = 3
    /\ drv.lvl2Key.Epoch.NotAfter.sec - drv.lvl2Key.Epoch.NotBefore.sec = 1
    /\ drv.lvl2KeyNext.Epoch.NotBefore.sec = drv.lvl2Key.Epoch.NotAfter.sec + 1
    /\ drv.lvl2KeyPrev.Epoch.NotBefore.sec < 0
    /\ drv.ds.Key = drv.lvl2Key.Key

U == "unit"

\* C10 as claimed: the derivation is looked up by the protocol name of the
\* metadata and invoked; an unregistered name or a rejected input fails
\* through check, and no key is returned.
C10_LookupByMetaProtocol ==
    pc[U] \in {"done", "panic"} =>
       /\ unit.lookup = unit.meta.Protocol
       /\ pc[U] = "panic" =>
             /\ panicked[U] = "check"
             /\ unit.key = ZeroLvl2Key
       /\ (registry[unit.meta.Protocol] = "delegated"
             /\ unit.meta.KeyType \in KeyTypes) => pc[U] = "done"

\* C10, amended: HostKeyFromDS looks up the derivation registered under the
\* fixed name "piskes", whatever the protocol name of the metadata, and
\* invokes it with meta and ds; if the derivation rejects the inputs the
\* operation fails through check; if no delegated derivation is registered
\* under "piskes" the type assertion aborts the process with a runtime
\* panic before anything is invoked, not through check; in both failures no
\* key is returned.
C10_LookupPiskes ==
    pc[U] \in {"done", "panic"} =>
       /\ unit.lookup = "piskes"
       /\ IF registry["piskes"] # "delegated"
          THEN /\ pc[U] = "panic" /\ panicked[U] = "runtime"
               /\ ~unit.invoked /\ unit.key = ZeroLvl2Key
          ELSE /\ unit.invoked
               /\ IF unit.meta.KeyType \in KeyTypes
                  THEN /\ pc[U] = "done" /\ panicked[U] = "no"
                       /\ unit.key.Epoch = unit.ds.Epoch
                       /\ unit.key.KeyType = unit.meta.KeyType
                       /\ Len(unit.key.Key) = KeyLen
                  ELSE /\ pc[U] = "panic" /\ panicked[U] = "check"
                       /\ unit.key = ZeroLvl2Key
       /\ pc[U] = "panic" => exit[U] = 2

C10_Witness ==
    /\ pc[U] = "panic" /\ panicked[U] = "runtime"
    /\ unit.meta.Protocol = "scmp"
    /\ registry["scmp"] = "delegated"
    /\ unit.lookup = "piskes"
    /\ ~unit.invoked

====
